---------------------------- MODULE Spec2Model ----------------------------
(***************************************************************************)
(* PravdaPlus: a feed-aggregation gateway (services/api/main.py) and a     *)
(* text-transformation service (services/transformer/main.py).             *)
(*                                                                         *)
(* Four specifications:                                                    *)
(*   Spec      the gateway handling one client request at a time           *)
(*   SpecT     the transformation service handling one request at a time   *)
(*   SpecC     the transformation service handling requests concurrently   *)
(*   SpecParse the backend-reply parser applied to bounded replies         *)
(* Texts are TLA+ strings handled character by character (Len, SubSeq,     *)
(* \o), so lower(), strip(), replace(), split() are computed, not assumed. *)
(***************************************************************************)
EXTENDS Integers, Sequences, FiniteSets, TLC

VARIABLES
    gPc,        \* gateway: "idle" | "fetch" | "body" | "gather" | "relay" |
                \*          "relay_body" | "done"
    gReq,       \* gateway: the request being handled
    gTasks,     \* gateway: per feed key, the fetch task of get_all_news
    gFeed,      \* gateway: the feed reply seen by get_news_by_category
    gUp,        \* gateway: the Transformation service's reply to the relay
    gResp,      \* gateway: the HTTP response sent to the client
    tConfigured,\* transformer: OPENAI_CONFIGURED, fixed when the process starts
    tPc,        \* transformer: "idle" | "backend" | "done"
    tReq,       \* transformer: the request being handled
    tRng,       \* transformer: the process-wide generator of module random
    tCalls,     \* transformer: backend POSTs issued for the current request
    tBackend,   \* transformer: the backend's reply to the current request
    tResp,      \* transformer: the HTTP response sent
    tPrev,      \* transformer: the previous completed fallback call
    pReply,     \* parser: the reply text under test
    pOut,       \* parser: the parse result
    cTasks,     \* concurrent transformer: per request, its handler task
    cRunning    \* concurrent transformer: the task the event loop runs, or 0

gvars == <<gPc, gReq, gTasks, gFeed, gUp, gResp>>
tvars == <<tConfigured, tPc, tReq, tRng, tCalls, tBackend, tResp, tPrev>>
pvars == <<pReply, pOut>>
cvars == <<cTasks, cRunning>>
vars == <<gvars, tvars, pvars, cvars>>

(***************************************************************************)
(* Bounds of the model.                                                    *)
(***************************************************************************)
MaxItems == 3        \* item nodes in a feed body
MaxLimit == 3        \* largest ?limit= tried
MaxNegLimit == 2     \* most negative ?limit= tried is -MaxNegLimit
MaxReplyLines == 4   \* lines of a backend reply
MaxRequests == 2     \* /transform requests in flight at once

(***************************************************************************)
(* Python str operations.                                                  *)
(***************************************************************************)
Char(s, i) == SubSeq(s, i, i)

\* The texts given to the program are over the characters U+0001..U+00FF;
\* the texts kept in the state are ASCII.  The cased letters whose other
\* case is one character of that range, each capital over its small letter:
UpperAlpha == "ABCDEFGHIJKLMNOPQRSTUVWXYZÀÁÂÃÄÅÆÇÈÉÊËÌÍÎÏÐÑÒÓÔÕÖØÙÚÛÜÝÞ"
LowerAlpha == "abcdefghijklmnopqrstuvwxyzàáâãäåæçèéêëìíîïðñòóôõöøùúûüýþ"
Digits == "0123456789"

IndexIn(alpha, c) ==
    IF \E i \in 1..Len(alpha) : Char(alpha, i) = c
    THEN CHOOSE i \in 1..Len(alpha) : Char(alpha, i) = c
    ELSE 0

LowerChar(c) == IF IndexIn(UpperAlpha, c) > 0 THEN Char(LowerAlpha, IndexIn(UpperAlpha, c)) ELSE c
\* The capital of y with diaeresis (U+00FF) is U+0178.  A TLA+ string
\* cannot hold U+0178: in the texts of the model the character U+03AB stands
\* for it.
CapitalYDiaeresis == "Ϋ"

\* the capital of sharp s is "SS", the capital of the micro sign is the
\* Greek capital mu (U+039C), the capital of y with diaeresis is U+0178
UpperChar(c) ==
    IF IndexIn(LowerAlpha, c) > 0 THEN Char(UpperAlpha, IndexIn(LowerAlpha, c))
    ELSE IF c = "ß" THEN "SS"
    ELSE IF c = "µ" THEN "Μ"
    ELSE IF c = "ÿ" THEN CapitalYDiaeresis
    ELSE c

\* s.lower(), s.upper(): character by character (the text is halved to keep
\* the evaluation shallow)
RECURSIVE Lower(_)
Lower(s) ==
    IF Len(s) = 0 THEN ""
    ELSE IF Len(s) = 1 THEN LowerChar(s)
    ELSE Lower(SubSeq(s, 1, Len(s) \div 2)) \o Lower(SubSeq(s, Len(s) \div 2 + 1, Len(s)))

RECURSIVE Upper(_)
Upper(s) ==
    IF Len(s) = 0 THEN ""
    ELSE IF Len(s) = 1 THEN UpperChar(s)
    ELSE Upper(SubSeq(s, 1, Len(s) \div 2)) \o Upper(SubSeq(s, Len(s) \div 2 + 1, Len(s)))

\* needle in s
Contains(needle, s) ==
    \E i \in 1..(Len(s) - Len(needle) + 1) : SubSeq(s, i, i + Len(needle) - 1) = needle

StartsWith(s, p) == Len(s) >= Len(p) /\ SubSeq(s, 1, Len(p)) = p

\* c.isspace(): tab, line feed, vertical tab, form feed, carriage return,
\* the separators U+001C..U+001F, space, next line U+0085, no-break space
IsSpace(c) == c \in {" ", "\n", "\t", "\r", "\f", "", "", "", "", "", "", " "}

\* s.strip()
RECURSIVE LStrip(_)
LStrip(s) == IF s # "" /\ IsSpace(Char(s, 1)) THEN LStrip(SubSeq(s, 2, Len(s))) ELSE s

RECURSIVE RStrip(_)
RStrip(s) == IF s # "" /\ IsSpace(Char(s, Len(s))) THEN RStrip(SubSeq(s, 1, Len(s) - 1)) ELSE s

Strip(s) == RStrip(LStrip(s))

\* s.find(pat) + 1: the first place pat occurs in s, 0 when it does not
Find(s, pat) ==
    LET at == {i \in 1..(Len(s) - Len(pat) + 1) : SubSeq(s, i, i + Len(pat) - 1) = pat}
    IN IF at = {} THEN 0 ELSE CHOOSE i \in at : \A j \in at : i <= j

\* s.replace(pat, ""): every non-overlapping occurrence, left to right
RECURSIVE Remove(_, _)
Remove(s, pat) ==
    LET i == Find(s, pat)
    IN IF i = 0 THEN s
       ELSE SubSeq(s, 1, i - 1) \o Remove(SubSeq(s, i + Len(pat), Len(s)), pat)

\* s.split(sep): always at least one piece
RECURSIVE Split(_, _)
Split(s, sep) ==
    LET i == Find(s, sep)
    IN IF i = 0 THEN <<s>>
       ELSE <<SubSeq(s, 1, i - 1)>> \o Split(SubSeq(s, i + Len(sep), Len(s)), sep)

\* sep.join(parts)
RECURSIVE Join(_, _)
Join(parts, sep) ==
    IF parts = <<>> THEN ""
    ELSE IF Len(parts) = 1 THEN parts[1]
    ELSE parts[1] \o sep \o Join(Tail(parts), sep)

\* str(n) for n >= 0
RECURSIVE IntToStr(_)
IntToStr(n) ==
    IF n < 10 THEN Char(Digits, n + 1)
    ELSE IntToStr(n \div 10) \o Char(Digits, (n % 10) + 1)

\* seq[:n], Python's slice: a negative n counts from the end
PySlice(seq, n) ==
    IF n >= 0 THEN SubSeq(seq, 1, IF n < Len(seq) THEN n ELSE Len(seq))
    ELSE SubSeq(seq, 1, IF Len(seq) + n > 0 THEN Len(seq) + n ELSE 0)

(***************************************************************************)
(* Exceptions, as the handlers' except clauses tell them apart.            *)
(***************************************************************************)
Exc(type, status, detail) == [type |-> type, status |-> status, detail |-> detail]
HTTPException(status, detail) == Exc("HTTPException", status, detail)

\* str(e): the message of the exception.  An HTTPException is built from
\* keyword arguments and has no message of its own: the installed Starlette
\* prints it as "<status>: <detail>" (starlette_str) or, in the releases
\* without HTTPException.__str__, as the empty text
StrExc(e, starlette_str) ==
    IF e.type = "HTTPException"
    THEN IF starlette_str THEN IntToStr(e.status) \o ": " \o e.detail ELSE ""
    ELSE e.detail

Returned(v) == [raised |-> FALSE, value |-> v, exc |-> Exc("", 0, "")]
Raised(e, none) == [raised |-> TRUE, value |-> none, exc |-> e]


(***************************************************************************)
(* Gateway: feed fetching (services/api/main.py).                          *)
(***************************************************************************)
BBC_FEEDS == <<"world", "uk", "business", "technology", "health">>
FeedKeys == {BBC_FEEDS[i] : i \in 1..Len(BBC_FEEDS)}

\* A child element of an item node as item.find() and .text give it:
\* not found (None), found with no text (.text is None), found with text.
Absent == [present |-> FALSE, hasText |-> FALSE, text |-> ""]
Empty == [present |-> TRUE, hasText |-> FALSE, text |-> ""]
El(t) == [present |-> TRUE, hasText |-> TRUE, text |-> t]

Item(t, d, l, p) == [title |-> t, description |-> d, link |-> l, pubDate |-> p]

\* A reply of the feed source, as far as the fetch has seen it: the GET
\* raised before a status came (network error, timeout); the status came and
\* the body has not been read (yet, or ever: a status other than 200 ends
\* the fetch); reading the body raised; or the body was read, well-formed
\* XML holding item nodes, or not.
FeedError == [kind |-> "error", status |-> 0, wellFormed |-> FALSE, items |-> <<>>]
FeedHead(status) == [kind |-> "head", status |-> status, wellFormed |-> FALSE, items |-> <<>>]
FeedReadError == [kind |-> "read_error", status |-> 200, wellFormed |-> FALSE, items |-> <<>>]
FeedHttp(status, wellFormed, items) ==
    [kind |-> "http", status |-> status, wellFormed |-> wellFormed, items |-> items]

DayNames == <<"mon", "tue", "wed", "thu", "fri", "sat", "sun">>
MonthNames == <<"jan", "feb", "mar", "apr", "may", "jun", "jul", "aug", "sep", "oct", "nov", "dec">>
IsDigits(s) == \A i \in 1..Len(s) : IndexIn(Digits, Char(s, i)) > 0

RECURSIVE StrToInt(_)
StrToInt(s) ==
    IF s = "" THEN 0
    ELSE StrToInt(SubSeq(s, 1, Len(s) - 1)) * 10 + (IndexIn(Digits, Char(s, Len(s))) - 1)

\* s.split(): the words between runs of whitespace
RECURSIVE Words(_)
Words(s) ==
    LET t == LStrip(s)
        ws == {i \in 1..Len(t) : IsSpace(Char(t, i))}
    IN IF t = "" THEN <<>>
       ELSE IF ws = {} THEN <<t>>
       ELSE LET i == CHOOSE k \in ws : \A j \in ws : k <= j
            IN <<SubSeq(t, 1, i - 1)>> \o Words(SubSeq(t, i, Len(t)))

\* a field of one or two digits with a value in lo..hi
Field(s, lo, hi) == Len(s) \in 1..2 /\ IsDigits(s) /\ StrToInt(s) \in lo..hi

IsLeap(y) == (y % 4 = 0 /\ y % 100 # 0) \/ y % 400 = 0
DaysIn(m, y) ==
    IF m = 2 THEN (IF IsLeap(y) THEN 29 ELSE 28)
    ELSE IF m \in {4, 6, 9, 11} THEN 30 ELSE 31

\* datetime.strptime(s, "%a, %d %b %Y %H:%M:%S") succeeds: the whole text
\* is day name, comma, day, month name, four-digit year and time, separated
\* by whitespace, and names a date that exists
StrptimeOk(s) ==
    LET w == Words(s)
        hms == Split(w[5], ":")
    IN /\ s # "" /\ ~IsSpace(Char(s, 1)) /\ ~IsSpace(Char(s, Len(s)))
       /\ Len(w) = 5
       /\ Len(w[1]) = 4 /\ Char(w[1], 4) = ","
       /\ \E i \in 1..7 : DayNames[i] = Lower(SubSeq(w[1], 1, 3))
       /\ \E i \in 1..12 : MonthNames[i] = Lower(w[3])
       /\ Len(w[4]) = 4 /\ IsDigits(w[4]) /\ StrToInt(w[4]) >= 1
       /\ Field(w[2], 1, DaysIn(CHOOSE i \in 1..12 : MonthNames[i] = Lower(w[3]), StrToInt(w[4])))
       /\ Len(hms) = 3
       /\ Field(hms[1], 0, 23) /\ Field(hms[2], 0, 59) /\ Field(hms[3], 0, 59)

Now == [kind |-> "now", text |-> ""]

\* lines 75-80: the parsed date, or datetime.now() when the date is missing,
\* empty or does not parse
ParseDate(pubDate) ==
    LET date_str == IF pubDate.present /\ pubDate.hasText THEN pubDate.text ELSE ""
        cut == PySlice(date_str, 25)
    IN IF date_str # "" /\ StrptimeOk(cut) THEN [kind |-> "parsed", text |-> cut] ELSE Now

NewsItem(item, category) ==
    [title |-> Strip(item.title.text),
     description |-> Strip(item.description.text),
     link |-> Strip(item.link.text),
     pub_date |-> ParseDate(item.pubDate),
     category |-> category]

\* line 73: title is not None and description is not None and link is not None
HasElements(item) == item.title.present /\ item.description.present /\ item.link.present

\* lines 83-85: .text.strip() on an element without text raises AttributeError
StripRaises(item) ==
    HasElements(item) /\ ~(item.title.hasText /\ item.description.hasText /\ item.link.hasText)

RECURSIVE Articles(_, _)
Articles(items, category) ==
    IF items = <<>> THEN <<>>
    ELSE (IF HasElements(Head(items)) THEN <<NewsItem(Head(items), category)>> ELSE <<>>)
         \o Articles(Tail(items), category)

\* lines 58-60: the status ends the fetch: the GET raised, or the status is
\* not 200
EndsAtStatus(head) == head.kind = "error" \/ head.status # 200

\* lines 55-93: every exception inside the try is caught and gives []
fetch_bbc_feed(category, reply, max_articles) ==
    IF reply.kind = "error" THEN <<>>
    ELSE IF reply.status # 200 THEN <<>>
    ELSE IF reply.kind = "read_error" THEN <<>>
    ELSE IF ~reply.wellFormed THEN <<>>
    ELSE LET items == PySlice(reply.items, max_articles)
         IN IF \E i \in 1..Len(items) : StripRaises(items[i]) THEN <<>>
            ELSE Articles(items, category)

(***************************************************************************)
(* Gateway: responses and the relay's exception handling.                  *)
(***************************************************************************)
NoNews == [k \in {} |-> <<>>]
Response(status, detail, items, news, json) ==
    [status |-> status, detail |-> detail, items |-> items, news |-> news, json |-> json]
NoResponse == Response(0, "", <<>>, NoNews, "")
ErrorResponse(e) == Response(e.status, e.detail, <<>>, NoNews, "")

\* A reply of the Transformation service to the relay call, as far as the
\* handler has seen it: the call ran into the 60 s bound (before the status
\* line, or while the body was being read), failed to connect, gave a status
\* whose body is not read yet, or gave a status and a body.
UpTimeout(read) == [kind |-> "timeout", status |-> 0, body |-> read, isJson |-> FALSE]
UpConnectError == [kind |-> "connect_error", status |-> 0, body |-> "", isJson |-> FALSE]
UpHttp(status, body, isJson) == [kind |-> "http", status |-> status, body |-> body, isJson |-> isJson]
UpHead(status) == [kind |-> "head", status |-> status, body |-> "", isJson |-> FALSE]
UpBody(body, isJson) == [kind |-> "body", status |-> 0, body |-> body, isJson |-> isJson]
NoUp == [kind |-> "none", status |-> 0, body |-> "", isJson |-> FALSE]

\* lines 149-162: the body of the try block
RelayBody(up) ==
    IF up.kind = "timeout" THEN Raised(Exc("TimeoutError", 0, ""), "")
    ELSE IF up.kind = "connect_error"
         THEN Raised(Exc("ClientConnectorError", 0, "Cannot connect to host"), "")
    ELSE IF up.status = 200
         THEN IF up.isJson THEN Returned(up.body)
              ELSE Raised(Exc("ContentTypeError", 0, "Attempt to decode JSON with unexpected mimetype"), "")
    ELSE Raised(HTTPException(up.status, "Transformer service error: " \o up.body), "")

\* lines 164-167 with the clauses swapped: the generic clause tried first
RelayExceptGenericFirst(e, starlette_str) ==
    HTTPException(500, "Transformation failed: " \o StrExc(e, starlette_str))

\* lines 164-167: except asyncio.TimeoutError, then except Exception, which
\* also catches the HTTPException raised at line 159
RelayExcept(e, starlette_str) ==
    IF e.type = "TimeoutError" THEN HTTPException(504, "Transformer service timeout")
    ELSE HTTPException(500, "Transformation failed: " \o StrExc(e, starlette_str))

\* lines 133-167
gateway_transform_article(up, starlette_str) ==
    LET r == RelayBody(up)
    IN IF r.raised THEN ErrorResponse(RelayExcept(r.exc, starlette_str))
       ELSE Response(200, "", <<>>, NoNews, r.value)

(***************************************************************************)
(* Gateway: bounded inputs.                                                *)
(***************************************************************************)
GoodDate == El("Mon, 01 Jan 2024 10:00:00 GMT")
\* the same date with a tab after the comma
TabbedDate == El("Mon,\t01 Jan 2024 10:00:00 GMT")
BadDate == El("2024-01-01T10:00:00Z")

ItemFull == Item(El("\tStorm hits coast \n"), El("Heavy rain expected"), El("http://bbc/1"), TabbedDate)
ItemNoDate == Item(El("Markets rally"), El("Shares rise"), El("http://bbc/2"), Absent)
ItemBadDate == Item(El("New phone out"), El("It has a screen"), El("http://bbc/3"), BadDate)
ItemNoDescription == Item(El("Untold story"), Absent, El("http://bbc/4"), Empty)
ItemEmptyTitle == Item(Empty, El("No headline"), El("http://bbc/5"), GoodDate)
ItemBlankTitle == Item(El(" \t"), El("Blank headline"), El("http://bbc/6"), GoodDate)

SampleItems == {ItemFull, ItemNoDate, ItemBadDate, ItemNoDescription, ItemEmptyTitle, ItemBlankTitle}

Feeds == UNION {[1..n -> SampleItems] : n \in 0..MaxItems}

\* what the GET of a feed gives first, and what reading the body of a 200
\* reply gives then
FeedHeads == {FeedError, FeedHead(404), FeedHead(503), FeedHead(200)}
FeedBodies ==
    {FeedReadError, FeedHttp(200, FALSE, <<>>)} \cup {FeedHttp(200, TRUE, f) : f \in Feeds}

\* the same, as tried per feed in the aggregate call
GatherHeads == {FeedError, FeedHead(404), FeedHead(200)}
GatherBodies ==
    {FeedHttp(200, FALSE, <<>>),
     FeedHttp(200, TRUE, <<ItemFull, ItemNoDate, ItemBadDate>>),
     FeedHttp(200, TRUE, <<ItemFull, ItemEmptyTitle>>)}

Limits == (0 - MaxNegLimit)..MaxLimit
Categories == FeedKeys \cup {"sport"}

\* what the POST to the transformer gives first, and what reading the body
\* gives then: the 60 s bound passes with part of the body read, or the body
\* is there, JSON or not
UpHeads == {UpTimeout(""), UpConnectError, UpHead(200), UpHead(500), UpHead(422), UpHead(503)}
UpBodies ==
    {UpTimeout("{\"original\": {\"tit"),
     UpBody("{\"status\": \"success\"}", TRUE),
     UpBody("{\"detail\": \"Transformation failed: boom\"}", TRUE),
     UpBody("<html>proxy</html>", FALSE),
     UpBody("Service Unavailable", FALSE)}

RelayTitles == {"Rain", "President speaks"}

(***************************************************************************)
(* Gateway: the request handlers as a state machine.                       *)
(***************************************************************************)
Req(endpoint, category, limit, title) ==
    [endpoint |-> endpoint, category |-> category, limit |-> limit, title |-> title]
NoReq == Req("", "", 0, "")

NoTask == [st |-> "none", reply |-> FeedError, result |-> <<>>]
NoTasks == [i \in 1..Len(BBC_FEEDS) |-> NoTask]

GInit ==
    /\ gPc = "idle"
    /\ gReq = NoReq
    /\ gTasks = NoTasks
    /\ gFeed = FeedError
    /\ gUp = NoUp
    /\ gResp = NoResponse

\* lines 104-108: GET /news/{category}; an unknown category is answered 404
GetNewsByCategory(category, limit) ==
    /\ gPc = "idle"
    /\ gReq' = Req("news_by_category", category, limit, "")
    /\ IF category \notin FeedKeys
       THEN /\ gPc' = "done"
            /\ gResp' = ErrorResponse(HTTPException(404, "Category '" \o category \o "' not found"))
       ELSE /\ gPc' = "fetch"
            /\ gResp' = NoResponse
    /\ UNCHANGED <<gTasks, gFeed, gUp>>

\* lines 110-112 with 58-60: the GET of the feed raises, or its status
\* comes; on a 200 the fetch suspends again at line 61 for the body
FeedStatus(head) ==
    /\ gPc = "fetch"
    /\ gFeed' = head
    /\ IF EndsAtStatus(head)
       THEN /\ gResp' = Response(200, "", fetch_bbc_feed(gReq.category, head, gReq.limit), NoNews, "")
            /\ gPc' = "done"
       ELSE /\ gResp' = gResp
            /\ gPc' = "body"
    /\ UNCHANGED <<gReq, gTasks, gUp>>

\* lines 61-93 and 112: the body is read (or reading it raises), the items
\* are extracted and the handler returns them
FeedBody(reply) ==
    /\ gPc = "body"
    /\ gFeed' = reply
    /\ gResp' = Response(200, "", fetch_bbc_feed(gReq.category, reply, gReq.limit), NoNews, "")
    /\ gPc' = "done"
    /\ UNCHANGED <<gReq, gTasks, gUp>>

\* lines 114-122: GET /news; one coroutine per feed is created and handed to
\* asyncio.gather, which schedules them all
GetAllNews(limit) ==
    /\ gPc = "idle"
    /\ gReq' = Req("all_news", "", limit, "")
    /\ gTasks' = [i \in 1..Len(BBC_FEEDS) |-> [NoTask EXCEPT !.st = "created"]]
    /\ gPc' = "gather"
    /\ gResp' = NoResponse
    /\ UNCHANGED <<gFeed, gUp>>

\* the event loop polls the network only once its ready queue is empty:
\* every scheduled task has run to its first suspension
IoPolled(tasks) == \A j \in 1..Len(BBC_FEEDS) : tasks[j].st # "created"

\* line 58: a task's first step issues its GET and suspends; the tasks run
\* in the order gather scheduled them
StartFetch(i) ==
    /\ gPc = "gather"
    /\ gTasks[i].st = "created"
    /\ \A j \in 1..(i - 1) : gTasks[j].st # "created"
    /\ gTasks' = [gTasks EXCEPT ![i].st = "inflight"]
    /\ UNCHANGED <<gPc, gReq, gFeed, gUp, gResp>>

\* lines 58-60: a feed's GET raises, or its status comes; the task finishes
\* or, on a 200, suspends again at line 61 for the body
TaskStatus(i, head) ==
    /\ gPc = "gather"
    /\ gTasks[i].st = "inflight"
    /\ IoPolled(gTasks)
    /\ gTasks' = [gTasks EXCEPT ![i] =
                    IF EndsAtStatus(head)
                    THEN [st |-> "done", reply |-> head,
                          result |-> fetch_bbc_feed(BBC_FEEDS[i], head, gReq.limit)]
                    ELSE [st |-> "body", reply |-> head, result |-> <<>>]]
    /\ UNCHANGED <<gPc, gReq, gFeed, gUp, gResp>>

\* lines 61-93: a feed's body is read and its task finishes
TaskBody(i, reply) ==
    /\ gPc = "gather"
    /\ gTasks[i].st = "body"
    /\ gTasks' = [gTasks EXCEPT ![i] = [st |-> "done", reply |-> reply,
                    result |-> fetch_bbc_feed(BBC_FEEDS[i], reply, gReq.limit)]]
    /\ UNCHANGED <<gPc, gReq, gFeed, gUp, gResp>>

\* lines 122-127: gather returns once every task is done
GatherDone ==
    /\ gPc = "gather"
    /\ \A i \in 1..Len(BBC_FEEDS) : gTasks[i].st = "done"
    /\ gResp' = Response(200, "", <<>>,
                  [k \in FeedKeys |-> gTasks[CHOOSE i \in 1..Len(BBC_FEEDS) : BBC_FEEDS[i] = k].result], "")
    /\ gPc' = "done"
    /\ UNCHANGED <<gReq, gTasks, gFeed, gUp>>

\* lines 133-153: POST /transform; the payload is posted to the transformer
PostTransform(title) ==
    /\ gPc = "idle"
    /\ gReq' = Req("transform", "", 0, title)
    /\ gPc' = "relay"
    /\ gResp' = NoResponse
    /\ UNCHANGED <<gTasks, gFeed, gUp>>

\* lines 149-154: the POST fails or runs into the 60 s bound, and the
\* handler answers; or the status comes and the handler suspends again for
\* the body, at line 155 or 158
RelayStatus(head, starlette_str) ==
    /\ gPc = "relay"
    /\ gUp' = head
    /\ IF head.kind = "head"
       THEN /\ gResp' = gResp
            /\ gPc' = "relay_body"
       ELSE /\ gResp' = gateway_transform_article(head, starlette_str)
            /\ gPc' = "done"
    /\ UNCHANGED <<gReq, gTasks, gFeed>>

\* lines 155-167: the body is read, or the 60 s bound passes meanwhile, and
\* the handler answers
RelayRead(body, starlette_str) ==
    /\ gPc = "relay_body"
    /\ LET up == IF body.kind = "timeout" THEN body
                 ELSE UpHttp(gUp.status, body.body, body.isJson)
       IN /\ gUp' = up
          /\ gResp' = gateway_transform_article(up, starlette_str)
    /\ gPc' = "done"
    /\ UNCHANGED <<gReq, gTasks, gFeed>>

\* the response is sent; the next request finds no state of this one
GNextRequest ==
    /\ gPc = "done"
    /\ gPc' = "idle"
    /\ gReq' = NoReq
    /\ gTasks' = NoTasks
    /\ gFeed' = FeedError
    /\ gUp' = NoUp
    /\ gResp' = NoResponse

\* the other service and the parser are not part of this specification
TOff ==
    /\ tConfigured = FALSE /\ tPc = "off" /\ tReq = "" /\ tRng = "" /\ tCalls = 0
    /\ tBackend = "" /\ tResp = "" /\ tPrev = ""
POff == pReply = "" /\ pOut = ""
COff == cTasks = <<>> /\ cRunning = 0

Init == GInit /\ TOff /\ POff /\ COff

Next ==
    \/ \E c \in Categories, n \in Limits : GetNewsByCategory(c, n) /\ UNCHANGED <<tvars, pvars, cvars>>
    \/ \E h \in FeedHeads : FeedStatus(h) /\ UNCHANGED <<tvars, pvars, cvars>>
    \/ \E r \in FeedBodies : FeedBody(r) /\ UNCHANGED <<tvars, pvars, cvars>>
    \/ \E n \in Limits : GetAllNews(n) /\ UNCHANGED <<tvars, pvars, cvars>>
    \/ \E i \in 1..Len(BBC_FEEDS) : StartFetch(i) /\ UNCHANGED <<tvars, pvars, cvars>>
    \/ \E i \in 1..Len(BBC_FEEDS), h \in GatherHeads : TaskStatus(i, h) /\ UNCHANGED <<tvars, pvars, cvars>>
    \/ \E i \in 1..Len(BBC_FEEDS), r \in GatherBodies : TaskBody(i, r) /\ UNCHANGED <<tvars, pvars, cvars>>
    \/ GatherDone /\ UNCHANGED <<tvars, pvars, cvars>>
    \/ \E t \in RelayTitles : PostTransform(t) /\ UNCHANGED <<tvars, pvars, cvars>>
    \/ \E h \in UpHeads, starlette_str \in BOOLEAN :
          RelayStatus(h, starlette_str) /\ UNCHANGED <<tvars, pvars, cvars>>
    \/ \E b \in UpBodies, starlette_str \in BOOLEAN :
          RelayRead(b, starlette_str) /\ UNCHANGED <<tvars, pvars, cvars>>
    \/ GNextRequest /\ UNCHANGED <<tvars, pvars, cvars>>

Spec == Init /\ [][Next]_vars


(***************************************************************************)
(* Transformation service: the seeded generator                            *)
(* (services/transformer/main.py, lines 60-65 and the random.* calls).     *)
(***************************************************************************)
\* line 64: hashlib.md5(article.title.encode()).hexdigest()[:8], the digest
\* of each title of the bounded input set
SeedTable ==
    ("President visits" :> "53e60a8d")
      @@ ("TRUMP rally" :> "06630ef5")
      @@ ("Medical advance" :> "92447254")
      @@ ("Finance news" :> "06b5e401")
      @@ ("Rain tomorrow" :> "63e285e4")
      @@ ("Snow falls" :> "8cdbda4f")
      @@ ("Medical president" :> "d443e68a")

MTStream ==
       ("53e60a8d" :> <<203, 151, 203, 39, 50, 3, 181, 94, 175, 164, 144, 54, 189, 193, 62, 211, 102, 177, 246, 186, 153, 146, 132, 47, 200, 111, 93, 71, 54, 214, 240, 175, 159, 52, 5, 206, 20, 3, 17, 181, 138, 46, 178, 152, 51, 1, 185, 79, 212, 115, 212, 23, 13, 209, 175, 142, 16, 225, 35, 142, 209, 111, 239, 167>>)
    @@ ("06630ef5" :> <<202, 67, 254, 55, 116, 85, 121, 56, 140, 142, 238, 200, 41, 196, 18, 133, 179, 69, 237, 209, 119, 58, 197, 207, 15, 60, 11, 243, 173, 122, 177, 26, 6, 166, 33, 145, 231, 187, 211, 165, 175, 24, 121, 174, 144, 73, 55, 180, 210, 210, 162, 174, 117, 180, 30, 190, 88, 246, 51, 126, 232, 83, 238, 24>>)
    @@ ("92447254" :> <<197, 243, 167, 218, 42, 55, 60, 51, 16, 145, 104, 38, 39, 224, 230, 32, 186, 6, 239, 218, 106, 178, 61, 96, 85, 176, 211, 46, 84, 98, 127, 201, 204, 105, 221, 251, 133, 246, 218, 47, 51, 191, 9, 146, 0, 107, 237, 54, 250, 144, 159, 79, 249, 61, 43, 194, 27, 112, 215, 203, 91, 32, 30, 91>>)
    @@ ("06b5e401" :> <<60, 70, 117, 26, 11, 129, 225, 177, 60, 76, 65, 239, 115, 109, 160, 40, 169, 78, 206, 238, 122, 252, 146, 78, 125, 254, 220, 118, 248, 55, 104, 69, 246, 231, 54, 131, 139, 214, 62, 86, 138, 230, 196, 162, 102, 59, 153, 113, 91, 134, 189, 108, 64, 98, 13, 105, 129, 242, 6, 82, 151, 196, 55, 210>>)
    @@ ("63e285e4" :> <<142, 164, 209, 63, 33, 227, 210, 11, 23, 251, 102, 149, 11, 26, 29, 201, 54, 254, 219, 17, 91, 168, 227, 85, 92, 21, 200, 43, 90, 233, 112, 10, 138, 147, 17, 109, 143, 161, 197, 74, 61, 229, 57, 178, 179, 40, 27, 43, 72, 48, 157, 157, 200, 196, 110, 137, 108, 63, 0, 61, 94, 86, 247, 219>>)
    @@ ("8cdbda4f" :> <<24, 34, 180, 209, 80, 16, 146, 82, 141, 51, 0, 97, 194, 180, 174, 98, 249, 169, 134, 46, 90, 65, 43, 5, 5, 161, 220, 249, 174, 103, 235, 164, 155, 38, 67, 70, 68, 27, 179, 39, 59, 131, 233, 51, 87, 226, 24, 153, 235, 166, 145, 78, 204, 33, 181, 6, 29, 139, 30, 65, 127, 87, 183, 83>>)
    @@ ("d443e68a" :> <<15, 78, 236, 30, 37, 34, 159, 44, 127, 6, 189, 189, 35, 95, 15, 99, 185, 210, 202, 164, 0, 242, 238, 201, 136, 21, 5, 38, 110, 165, 34, 3, 162, 142, 216, 243, 158, 222, 113, 218, 165, 229, 213, 69, 167, 47, 240, 198, 103, 86, 41, 159, 191, 81, 169, 42, 102, 60, 180, 89, 177, 90, 35, 0>>)
Titles == DOMAIN SeedTable
Seeds == {SeedTable[t] : t \in Titles}

\* A lone surrogate (U+D800..U+DFFF, here U+D83D) is a character a Python
\* str can hold and UTF-8 cannot encode.  A TLA+ string cannot hold it: in
\* the texts of the model the character U+001A stands for it.
LoneSurrogate == ""

\* line 64: text.encode() succeeds
Encodable(text) == ~Contains(LoneSurrogate, text)

\* line 64: the exception title.encode() raises; it reports the first run of
\* adjacent lone surrogates, one character by its name and position, several
\* by the positions of the first and the last
UnicodeEncodeError(title) ==
    LET start == Find(title, LoneSurrogate)
        end == CHOOSE j \in start..Len(title) :
                   /\ \A k \in start..j : Char(title, k) = LoneSurrogate
                   /\ j = Len(title) \/ Char(title, j + 1) # LoneSurrogate
    IN Exc("UnicodeEncodeError", 0,
           "'utf-8' codec can't encode "
               \o (IF end = start
                   THEN "character '\\ud83d' in position " \o IntToStr(start - 1)
                   ELSE "characters in position " \o IntToStr(start - 1)
                            \o "-" \o IntToStr(end - 1))
               \o ": surrogates not allowed")

\* the titles of the requests: those of the table and one that cannot be
\* encoded
UnencodableTitle == "President " \o LoneSurrogate
RequestTitles == Titles \cup {UnencodableTitle}

\* a description that cannot be encoded
UnencodableDescription == "storm " \o LoneSurrogate

\* the generator's state: the seed it was last seeded with and how many
\* 32-bit outputs it has produced since; MTStream holds the top byte of the
\* first outputs of the Mersenne Twister seeded with int(seed, 16)
Rng(seed, pos) == [seed |-> seed, pos |-> pos]

\* line 65 left out: the generator keeps the state it had
NoReseed(rng, title) == rng

\* lines 64-65: random.seed(seed)
SeedRng(rng, title) == Rng(SeedTable[title], 0)

PowerOfTwo(k) == CASE k = 0 -> 1 [] k = 1 -> 2 [] k = 2 -> 4 [] k = 3 -> 8 [] k = 4 -> 16
                   [] k = 5 -> 32 [] k = 6 -> 64 [] k = 7 -> 128 [] k = 8 -> 256

\* n.bit_length() for 0 < n < 256
BitLength(n) == CHOOSE k \in 1..8 : PowerOfTwo(k - 1) <= n /\ n < PowerOfTwo(k)

\* getrandbits(k), k <= 8: the top k bits of the next output
GetRandBits(rng, k) ==
    [val |-> MTStream[rng.seed][rng.pos + 1] \div PowerOfTwo(8 - k),
     rng |-> Rng(rng.seed, rng.pos + 1)]

\* Random._randbelow(n): draw bit_length(n) bits until the draw is below n
RECURSIVE RandBelow(_, _)
RandBelow(rng, n) ==
    LET d == GetRandBits(rng, BitLength(n))
    IN IF d.val < n THEN d ELSE RandBelow(d.rng, n)

\* random.choice(seq)
Choice(rng, seq) ==
    LET d == RandBelow(rng, Len(seq))
    IN [val |-> seq[d.val + 1], rng |-> d.rng]

\* random.randint(a, b)
RandInt(rng, a, b) ==
    LET d == RandBelow(rng, b - a + 1)
    IN [val |-> a + d.val, rng |-> d.rng]

(***************************************************************************)
(* Transformation service: the fallback generator (lines 58-149).          *)
(***************************************************************************)
satirical_angles == <<
    "Local Area Experts Baffled by Predictable Turn of Events",
    "Scientists Discover That Things Continue to Happen, More at 11",
    "Breaking: World Still Spinning, Residents Unimpressed",
    "Researchers Confirm Reality Still Operating Within Normal Parameters",
    "Local Person Shocked to Learn Universe Follows Established Patterns",
    "Area Officials Announce That Time Continues Moving Forward",
    "Experts Puzzled by Occurrence of Scheduled Event",
    "Community Leaders Perplexed by Entirely Foreseeable Development">>

PoliticalTitle == "Local Man Discovers Politicians Still Doing Politics, Experts Stunned"
HealthTitle == "Area Residents Shocked to Learn Bodies Still Require Maintenance"
BusinessTitle == "Money Continues to Exist Despite Public's Best Efforts to Ignore It"
TechnologyTitle == "Scientists Confirm: Computers Still Computing, Public Bewildered"

descriptors == <<"startling revelation", "shocking development", "unprecedented occurrence",
                 "mind-bending discovery", "earth-shattering news", "reality-defying event">>
expert_names == <<"Dr. Sarah Mitchell", "Professor Bob Thompson", "Dr. Jennifer Walsh",
                  "Professor Mike Stevens", "Dr. Lisa Chen", "Professor David Kumar">>
institutions == <<"University of Common Sense", "Institute of Obvious Studies",
                  "College of Predictable Outcomes", "Academy of Expected Results">>
resident_names == <<"Karen Johnson", "Mike Davis", "Jennifer Smith", "Bob Wilson",
                    "Sarah Brown", "Tom Anderson">>

\* lines 80-88: which branch of the headline selection an article takes
IsPolitical(title) == Contains("trump", Lower(title)) \/ Contains("president", Lower(title))
IsHealth(title, category) == Contains("health", Lower(category)) \/ Contains("medical", Lower(title))
IsBusiness(title, category) == Contains("business", Lower(category)) \/ Contains("finance", Lower(title))
IsTechnology(category) == Contains("technology", Lower(category))

\* lines 80-89: only the last branch draws from the generator
MockTitle(rng, title, category) ==
    IF IsPolitical(title) THEN [val |-> PoliticalTitle, rng |-> rng]
    ELSE IF IsHealth(title, category) THEN [val |-> HealthTitle, rng |-> rng]
    ELSE IF IsBusiness(title, category) THEN [val |-> BusinessTitle, rng |-> rng]
    ELSE IF IsTechnology(category) THEN [val |-> TechnologyTitle, rng |-> rng]
    ELSE Choice(rng, satirical_angles)

\* line 97
MockDescription(descriptor) ==
    "In a " \o descriptor \o " that has left experts frantically updating their textbooks, recent events have confirmed what many suspected all along: things continue to happen in the world."

Triple(scenario, expert_quote, resident_quote) ==
    [scenario |-> scenario, expert_quote |-> expert_quote, resident_quote |-> resident_quote]

TechnologyTriple == Triple(
    "the latest technological development continues to perplex humanity",
    "We've been studying human-computer interaction for decades, and yet people still act surprised when technology does exactly what it was designed to do.",
    "I had no idea that pressing buttons would make things happen on screens.")
HealthTriple == Triple(
    "people are discovering that their bodies still require basic maintenance",
    "After years of research, we've confirmed that the human body continues to function according to established biological principles.",
    "Who could have predicted that what I eat and how much I exercise would affect my health?")
BusinessTriple == Triple(
    "economic principles continue to operate as economists predicted",
    "Our extensive research has revealed that supply, demand, and market forces are still functioning exactly as textbooks describe.",
    "I'm shocked to learn that businesses exist to make money.")
DefaultTriple == Triple(
    "current events continue to unfold in a logical sequence",
    "We've been observing cause-and-effect relationships for years, yet people remain surprised when actions have consequences.",
    "I had no idea that today would be followed by tomorrow.")

\* lines 110-125
MockTriple(category) ==
    IF Contains("technology", Lower(category)) THEN TechnologyTriple
    ELSE IF Contains("health", Lower(category)) THEN HealthTriple
    ELSE IF Contains("business", Lower(category)) THEN BusinessTriple
    ELSE DefaultTriple

\* lines 127-143
MockContent(category, institution, expert, resident, resident_age, triple) ==
    LET scenario == triple.scenario
        expert_quote == triple.expert_quote
        resident_quote == triple.resident_quote
    IN "\n"
        \o Upper(category)
        \o " - In a development that has left researchers at the "
        \o institution
        \o " scrambling to update their \"Encyclopedia of Predictable Outcomes,\" recent events have confirmed that "
        \o scenario
        \o ".\n\n"
        \o expert
        \o ", Professor of Stating the Obvious at "
        \o institution
        \o ", expressed measured bewilderment at the public's reaction: \""
        \o expert_quote
        \o " It's like being surprised that gravity makes things fall down.\"\n\n"
        \o "The discovery came after extensive research involving careful observation of reality and occasionally checking the news. \"The evidence was overwhelming,\" said lead researcher Dr. Amanda Foster, who spent nearly four minutes analyzing the situation before reaching her groundbreaking conclusion.\n\n"
        \o "Local resident "
        \o resident
        \o ", "
        \o IntToStr(resident_age)
        \o ", was reportedly \"stunned\" by this revelation. \""
        \o resident_quote
        \o "\" she said while simultaneously demonstrating a complete understanding of exactly how these things work.\n\n"
        \o "Meanwhile, experts continue to analyze the situation with the same level of accuracy they've maintained since the invention of expertise. \"We're confident that things will continue to happen in roughly the order they happen,\" announced analyst Dr. Patricia Moore, before immediately being proven correct by the passage of time.\n\n"
        \o "The international community has responded with its customary level of measured confusion, with world leaders issuing statements that can best be summarized as \"We acknowledge that events occurred and will probably continue occurring.\"\n\n"
        \o "In related news, the sun rose this morning as scheduled, water remains wet, and people continue to have opinions about things.\n\n"
        \o "This story is developing, assuming anyone can agree on what 'developing' means when applied to the unstoppable march of causality itself.\n"

Transformed(title, description, content) ==
    [title |-> title, description |-> description, content |-> content]
NoTransformed == Transformed("", "", "")

\* lines 58-149: the article generated without a backend, or the exception
\* of line 64, and the generator as the call leaves it
MockTransform(rng0, title, category) ==
    IF ~Encodable(title)
    THEN [raised |-> TRUE, value |-> NoTransformed, exc |-> UnicodeEncodeError(title),
          rng |-> rng0]
    ELSE
    LET seeded == SeedRng(rng0, title)
        mock_title == MockTitle(seeded, title, category)
        descriptor == Choice(mock_title.rng, descriptors)
        expert == Choice(descriptor.rng, expert_names)
        institution == Choice(expert.rng, institutions)
        resident == Choice(institution.rng, resident_names)
        resident_age == RandInt(resident.rng, 25, 65)
    IN [raised |-> FALSE,
        value |-> Transformed(mock_title.val, MockDescription(descriptor.val),
                    Strip(MockContent(category, institution.val, expert.val, resident.val,
                                      resident_age.val, MockTriple(category)))),
        exc |-> Exc("", 0, ""),
        rng |-> resident_age.rng]

(***************************************************************************)
(* Transformation service: parsing the backend's reply (lines 209-252).    *)
(***************************************************************************)
GenericTitle == "Breaking: Local News Still Happening, Experts Baffled"
GenericDescription == "In a shocking turn of events, things continue to occur in the world."

ScanState(title, description, content, section, content_lines) ==
    [title |-> title, description |-> description, content |-> content,
     section |-> section, content_lines |-> content_lines]

\* lines 218-231: one pass of the loop body
ScanLine(st, line) ==
    LET line_stripped == Strip(line)
    IN IF StartsWith(line_stripped, "TITLE:")
       THEN [st EXCEPT !.section = "title", !.title = Strip(Remove(line_stripped, "TITLE:"))]
       ELSE IF StartsWith(line_stripped, "DESCRIPTION:")
       THEN [st EXCEPT !.section = "description",
                       !.description = Strip(Remove(line_stripped, "DESCRIPTION:"))]
       ELSE IF StartsWith(line_stripped, "CONTENT:")
       THEN [st EXCEPT !.section = "content", !.content = Strip(Remove(line_stripped, "CONTENT:"))]
       ELSE IF st.section = "description" /\ line_stripped # ""
       THEN [st EXCEPT !.description = st.description \o " " \o line_stripped]
       ELSE IF st.section = "content" /\ line_stripped # ""
       THEN [st EXCEPT !.content_lines = Append(st.content_lines, line_stripped)]
       ELSE st

\* lines 217-231: the loop over the lines
RECURSIVE ScanLines(_, _)
ScanLines(st, lines) ==
    IF lines = <<>> THEN st ELSE ScanLines(ScanLine(st, Head(lines)), Tail(lines))

\* lines 233-234: the collected lines replace the text of the CONTENT: line
JoinContent(st) ==
    IF st.content_lines # <<>> THEN Join(st.content_lines, "\n") ELSE st.content

\* lines 237-246: the secondary parse on blank-line boundaries
SecondaryParse(content, title, description, transformed_content) ==
    IF title = "" \/ description = ""
    THEN LET sections == Split(content, "\n\n")
         IN IF Len(sections) >= 3
            THEN Transformed(Strip(Remove(sections[1], "TITLE:")),
                             Strip(Remove(sections[2], "DESCRIPTION:")),
                             Strip(Remove(sections[3], "CONTENT:")))
            ELSE Transformed(GenericTitle, GenericDescription, Strip(content))
    ELSE Transformed(title, description, transformed_content)

Or(a, b) == IF a # "" THEN a ELSE b

\* lines 209-252
ParseReply(content) ==
    LET st == ScanLines(ScanState("", "", "", "none", <<>>), Split(Strip(content), "\n"))
        t == SecondaryParse(content, st.title, st.description, JoinContent(st))
    IN Transformed(Or(t.title, GenericTitle), Or(t.description, GenericDescription),
                   Or(t.content, Strip(content)))

(***************************************************************************)
(* Transformation service: the backend call and the handler.               *)
(***************************************************************************)
\* A reply of the generation backend: the POST ran into the 30 s bound or
\* could not connect, or it gave a status and a body; the body is not JSON,
\* or JSON lacking choices[0].message.content, or JSON whose content is null,
\* or JSON with the reply text.
Backend(kind, status, json, content) ==
    [kind |-> kind, status |-> status, json |-> json, content |-> content]
NoBackend == Backend("none", 0, "", "")

ErrorFallback == Transformed(
    "Local News Event Occurs, Area Residents Moderately Concerned",
    "[AI Transformation temporarily unavailable] Scientists baffled by yet another thing happening.",
    "BREAKING - In what experts are calling 'a thing that happened,' local events continue to unfold at the pace of reality itself. More details as they develop, or don't.")

\* lines 183-252: the body of the try block, once the backend has answered
\* or the client could not encode the request
BackendBody(reply) ==
    IF reply.kind = "encode_error"
    THEN Raised(Exc("UnicodeEncodeError", 0, "surrogates not allowed"), NoTransformed)
    ELSE IF reply.kind = "timeout" THEN Raised(Exc("ReadTimeout", 0, ""), NoTransformed)
    ELSE IF reply.kind = "connect_error" THEN Raised(Exc("ConnectError", 0, ""), NoTransformed)
    ELSE IF reply.status # 200
         THEN Raised(HTTPException(500, "OpenAI API error: " \o IntToStr(reply.status)), NoTransformed)
    ELSE IF reply.json = "malformed" THEN Raised(Exc("JSONDecodeError", 0, ""), NoTransformed)
    ELSE IF reply.json = "no_choices" THEN Raised(Exc("KeyError", 0, "'choices'"), NoTransformed)
    ELSE IF reply.json = "empty_choices" THEN Raised(Exc("IndexError", 0, "list index out of range"), NoTransformed)
    ELSE IF reply.json = "null_content"
         THEN Raised(Exc("AttributeError", 0, "'NoneType' object has no attribute 'strip'"), NoTransformed)
    ELSE Returned(ParseReply(reply.content))

\* lines 254-261 returning the secondary parse's generic article instead
BackendExceptGenericArticle(r) ==
    IF r.raised THEN Returned(Transformed(GenericTitle, GenericDescription, "")) ELSE r

\* lines 254-261: except Exception gives the fixed article
BackendExcept(r) == IF r.raised THEN Returned(ErrorFallback) ELSE r

\* lines 151-261: transform_with_openai with a usable credential
TransformWithBackend(reply) == BackendExcept(BackendBody(reply))

\* lines 272-288: the handler around the generated article
TResponse(status, detail, transformed, tag) ==
    [status |-> status, detail |-> detail, transformed |-> transformed, tag |-> tag]
NoTResponse == TResponse(0, "", NoTransformed, "")

\* no HTTPException is raised inside the try of lines 275-285, so the form
\* the installed Starlette gives its text plays no part at line 288
transformer_transform_article(r) ==
    IF r.raised
    THEN TResponse(500, "Transformation failed: " \o StrExc(r.exc, TRUE), NoTransformed, "")
    ELSE TResponse(200, "", r.value, "success")

(***************************************************************************)
(* Transformation service: bounded inputs and the state machine.           *)
(***************************************************************************)
TCategories == {"world", "politics", "Health", "business", "technology", "health technology",
                "\fworld"}

MarkedReply == "TITLE: Cats win\nDESCRIPTION: Dogs lose\nCONTENT: It happened.\nTwice."
SampleContents == {MarkedReply, "Headline\n\nSummary\n\nBody text", "Just one line", ""}

BackendReplies ==
    {Backend("timeout", 0, "", ""), Backend("connect_error", 0, "", ""),
     Backend("http", 500, "ok", ""), Backend("http", 429, "malformed", ""),
     Backend("http", 200, "malformed", ""), Backend("http", 200, "no_choices", ""),
     Backend("http", 200, "empty_choices", ""), Backend("http", 200, "null_content", "")}
    \cup {Backend("http", 200, "ok", c) : c \in SampleContents}

TReq(title, description, category) ==
    [title |-> title, description |-> description, category |-> category]
NoTReq == TReq("", "", "")

\* the requests: every title with every category, and every title with the
\* description that cannot be encoded
TRequests ==
    {TReq(t, "Heavy rain expected", c) : t \in RequestTitles, c \in TCategories}
        \cup {TReq(t, UnencodableDescription, "world") : t \in RequestTitles}
Call(valid, title, category, transformed) ==
    [valid |-> valid, title |-> title, category |-> category, transformed |-> transformed]
NoCall == Call(FALSE, "", "", NoTransformed)

\* a process that has not seeded the generator runs on a state taken from
\* the operating system: any stream
FreshRngs == {Rng(sd, 0) : sd \in Seeds}

TInit ==
    /\ tConfigured \in BOOLEAN
    /\ tPc = "idle"
    /\ tReq = NoTReq
    /\ tRng \in FreshRngs
    /\ tCalls = 0
    /\ tBackend = NoBackend
    /\ tResp = NoTResponse
    /\ tPrev = NoCall

\* lines 272-288 with lines 58-149: no usable credential; the fallback
\* generator runs to its end, or to the exception of line 64, without
\* suspending
TransformMock(title, description, category) ==
    /\ tPc = "idle"
    /\ ~tConfigured
    /\ LET m == MockTransform(tRng, title, category)
       IN /\ tRng' = m.rng
          /\ tResp' = transformer_transform_article(m)
    /\ tReq' = TReq(title, description, category)
    /\ tPc' = "done"
    /\ UNCHANGED <<tConfigured, tCalls, tBackend, tPrev>>

\* lines 163-164: the prompt holds the title and the description; it can be
\* encoded when both can
PromptEncodable(title, description) == Encodable(title) /\ Encodable(description)

\* lines 151-200: a usable credential; the prompt is posted to the backend.
\* A prompt with a lone surrogate is sent escaped, or the client raises when
\* it encodes the request (sent = FALSE), as the installed HTTP client does;
\* the exception is raised inside the try, before any suspension.
TransformCallBackend(title, description, category, sent) ==
    /\ tPc = "idle"
    /\ tConfigured
    /\ PromptEncodable(title, description) => sent
    /\ tReq' = TReq(title, description, category)
    /\ tCalls' = tCalls + 1
    /\ IF sent
       THEN /\ tPc' = "backend"
            /\ UNCHANGED <<tBackend, tResp>>
       ELSE /\ tBackend' = Backend("encode_error", 0, "", "")
            /\ tResp' = transformer_transform_article(TransformWithBackend(tBackend'))
            /\ tPc' = "done"
    /\ UNCHANGED <<tConfigured, tRng, tPrev>>

\* lines 200-261 and 276-288: the backend call ends
BackendReply(reply) ==
    /\ tPc = "backend"
    /\ tBackend' = reply
    /\ tResp' = transformer_transform_article(TransformWithBackend(reply))
    /\ tPc' = "done"
    /\ UNCHANGED <<tConfigured, tReq, tRng, tCalls, tPrev>>

\* the response is sent; tPrev remembers the fallback call for comparison
TNextRequest ==
    /\ tPc = "done"
    /\ tPrev' = IF tConfigured THEN NoCall
                ELSE Call(TRUE, tReq.title, tReq.category, tResp.transformed)
    /\ tPc' = "idle"
    /\ tReq' = NoTReq
    /\ tCalls' = 0
    /\ tBackend' = NoBackend
    /\ tResp' = NoTResponse
    /\ UNCHANGED <<tConfigured, tRng>>

\* the service is restarted with the same configuration: a new process
Restart(rng) ==
    /\ tPc = "idle"
    /\ tPrev.valid
    /\ tRng # rng
    /\ tRng' = rng
    /\ UNCHANGED <<tConfigured, tPc, tReq, tCalls, tBackend, tResp, tPrev>>

\* the gateway is not part of this specification
GOff == GInit

InitT == TInit /\ GOff /\ POff /\ COff

NextT ==
    \/ \E req \in TRequests :
          TransformMock(req.title, req.description, req.category)
              /\ UNCHANGED <<gvars, pvars, cvars>>
    \/ \E req \in TRequests, sent \in BOOLEAN :
          TransformCallBackend(req.title, req.description, req.category, sent)
              /\ UNCHANGED <<gvars, pvars, cvars>>
    \/ \E r \in BackendReplies : BackendReply(r) /\ UNCHANGED <<gvars, pvars, cvars>>
    \/ TNextRequest /\ UNCHANGED <<gvars, pvars, cvars>>
    \/ \E r \in FreshRngs : Restart(r) /\ UNCHANGED <<gvars, pvars, cvars>>

SpecT == InitT /\ [][NextT]_vars

(***************************************************************************)
(* Transformation service: requests handled concurrently in one process.   *)
(* Every request is a task of the one event loop; the loop runs one task   *)
(* at a time and switches only where the running task awaits I/O.  The     *)
(* generator tRng and the flag tConfigured are the process's, shared by    *)
(* all tasks.                                                              *)
(***************************************************************************)
CRequests == {TReq("Rain tomorrow", "Heavy rain expected", "world"),
              TReq("Snow falls", "Heavy rain expected", "world"),
              TReq("Snow falls", UnencodableDescription, "technology"),
              TReq(UnencodableTitle, "Heavy rain expected", "world")}
CBackendReplies == {Backend("timeout", 0, "", ""), Backend("http", 200, "ok", MarkedReply)}

\* the generator of a process that has not seeded it yet: a stream no
\* request of CRequests seeds, and one of those they do
CFreshRngs == {Rng(SeedTable[t], 0) : t \in {"Finance news", "Rain tomorrow"}}

\* a handler task: its position, its request, the locals of
\* transform_with_openai it has assigned so far, and its response;
\* overlapped tells whether another request was in flight when the task
\* first ran
CTask(pc, req) ==
    [pc |-> pc, req |-> req, mock_title |-> "", descriptor |-> "", expert |-> "",
     institution |-> "", resident |-> "", resident_age |-> 0,
     resp |-> NoTResponse, overlapped |-> FALSE]

InFlight(task) == task.pc \notin {"none", "done"}

\* the positions where the coroutine is suspended: line 183, awaiting the
\* backend's answer to the POST, is the only await of the generation
AwaitsAfterSeeding(pc) == pc \in {"post", "title"}

Awaits(pc) == pc = "post"

\* the loop after task i reached position pc: it keeps running i unless i
\* awaits there
Loop(i, pc) == IF Awaits(pc) THEN 0 ELSE i

\* task i can take its next step: the loop is running it, or runs nothing
\* and resumes it
Runs(i) == cRunning \in {0, i}

CInit ==
    /\ cTasks = [i \in 1..MaxRequests |-> CTask("none", NoTReq)]
    /\ cRunning = 0
    /\ tConfigured \in BOOLEAN
    /\ tRng \in CFreshRngs
    /\ tPc = "idle"
    /\ tReq = NoTReq
    /\ tCalls = 0
    /\ tBackend = NoBackend
    /\ tResp = NoTResponse
    /\ tPrev = NoCall

\* a request is read from its connection and its handler task is created
Arrive(i, req) ==
    /\ cRunning = 0
    /\ cTasks[i].pc = "none"
    /\ cTasks' = [cTasks EXCEPT ![i] = CTask("ready", req)]
    /\ UNCHANGED <<cRunning, tvars>>

\* lines 272-276 and 58: the loop starts the handler, which enters
\* transform_with_openai; with a credential the prompt is built and posted
\* (lines 151-199), or the client raises on encoding it (sent = FALSE) and
\* lines 254-261 give the fixed article
Start(i, sent) ==
    /\ cRunning = 0
    /\ cTasks[i].pc = "ready"
    /\ PromptEncodable(cTasks[i].req.title, cTasks[i].req.description) => sent
    /\ ~tConfigured => sent
    /\ LET pc == IF ~tConfigured THEN "seed" ELSE IF sent THEN "post" ELSE "done"
           encode_error == Backend("encode_error", 0, "", "")
       IN /\ cTasks' = [cTasks EXCEPT ![i].pc = pc,
                          ![i].overlapped = \E j \in 1..MaxRequests \ {i} : InFlight(cTasks[j]),
                          ![i].resp = IF pc = "done"
                                      THEN transformer_transform_article(TransformWithBackend(encode_error))
                                      ELSE @]
          /\ cRunning' = IF pc = "done" THEN 0 ELSE Loop(i, pc)
    /\ UNCHANGED tvars

\* lines 64-65; the exception of line 64 leaves transform_with_openai and
\* the handler answers 500 (lines 287-288)
Seed(i) ==
    /\ Runs(i)
    /\ cTasks[i].pc = "seed"
    /\ LET title == cTasks[i].req.title
       IN IF Encodable(title)
          THEN /\ tRng' = SeedRng(tRng, title)
               /\ cTasks' = [cTasks EXCEPT ![i].pc = "title"]
               /\ cRunning' = Loop(i, "title")
          ELSE /\ tRng' = tRng
               /\ cTasks' = [cTasks EXCEPT ![i].pc = "done",
                               ![i].resp = transformer_transform_article(
                                               Raised(UnicodeEncodeError(title), NoTransformed))]
               /\ cRunning' = 0
    /\ UNCHANGED <<tConfigured, tPc, tReq, tCalls, tBackend, tResp, tPrev>>

\* lines 80-89
PickTitle(i) ==
    /\ Runs(i)
    /\ cTasks[i].pc = "title"
    /\ LET d == MockTitle(tRng, cTasks[i].req.title, cTasks[i].req.category)
       IN /\ tRng' = d.rng
          /\ cTasks' = [cTasks EXCEPT ![i].pc = "descriptor", ![i].mock_title = d.val]
    /\ cRunning' = Loop(i, "descriptor")
    /\ UNCHANGED <<tConfigured, tPc, tReq, tCalls, tBackend, tResp, tPrev>>

\* line 97
PickDescriptor(i) ==
    /\ Runs(i)
    /\ cTasks[i].pc = "descriptor"
    /\ LET d == Choice(tRng, descriptors)
       IN /\ tRng' = d.rng
          /\ cTasks' = [cTasks EXCEPT ![i].pc = "names", ![i].descriptor = d.val]
    /\ cRunning' = Loop(i, "names")
    /\ UNCHANGED <<tConfigured, tPc, tReq, tCalls, tBackend, tResp, tPrev>>

\* lines 104-107
PickNames(i) ==
    /\ Runs(i)
    /\ cTasks[i].pc = "names"
    /\ LET expert == Choice(tRng, expert_names)
           institution == Choice(expert.rng, institutions)
           resident == Choice(institution.rng, resident_names)
           resident_age == RandInt(resident.rng, 25, 65)
       IN /\ tRng' = resident_age.rng
          /\ cTasks' = [cTasks EXCEPT ![i].pc = "return", ![i].expert = expert.val,
                          ![i].institution = institution.val, ![i].resident = resident.val,
                          ![i].resident_age = resident_age.val]
    /\ cRunning' = Loop(i, "return")
    /\ UNCHANGED <<tConfigured, tPc, tReq, tCalls, tBackend, tResp, tPrev>>

\* lines 110-149 and 276-285: the article is assembled from the locals and
\* the handler returns its response
Return(i) ==
    /\ Runs(i)
    /\ cTasks[i].pc = "return"
    /\ LET k == cTasks[i]
           content == MockContent(k.req.category, k.institution, k.expert, k.resident,
                                  k.resident_age, MockTriple(k.req.category))
           transformed == Transformed(k.mock_title, MockDescription(k.descriptor), Strip(content))
       IN cTasks' = [cTasks EXCEPT ![i].pc = "done",
                       ![i].resp = transformer_transform_article(Returned(transformed))]
    /\ cRunning' = 0
    /\ UNCHANGED tvars

\* lines 183-261 and 276-288: the backend's answer resumes the task, which
\* runs to the end of the handler
Resume(i, reply) ==
    /\ cRunning = 0
    /\ cTasks[i].pc = "post"
    /\ cTasks' = [cTasks EXCEPT ![i].pc = "done",
                    ![i].resp = transformer_transform_article(TransformWithBackend(reply))]
    /\ UNCHANGED <<cRunning, tvars>>

\* the responses are sent and the connections serve the next requests
Served ==
    /\ \A i \in 1..MaxRequests : cTasks[i].pc = "done"
    /\ cTasks' = [i \in 1..MaxRequests |-> CTask("none", NoTReq)]
    /\ UNCHANGED <<cRunning, tvars>>

InitC == CInit /\ GOff /\ POff

NextC ==
    \/ \E i \in 1..MaxRequests, r \in CRequests : Arrive(i, r) /\ UNCHANGED <<gvars, pvars>>
    \/ \E i \in 1..MaxRequests, sent \in BOOLEAN : Start(i, sent) /\ UNCHANGED <<gvars, pvars>>
    \/ \E i \in 1..MaxRequests : Seed(i) /\ UNCHANGED <<gvars, pvars>>
    \/ \E i \in 1..MaxRequests : PickTitle(i) /\ UNCHANGED <<gvars, pvars>>
    \/ \E i \in 1..MaxRequests : PickDescriptor(i) /\ UNCHANGED <<gvars, pvars>>
    \/ \E i \in 1..MaxRequests : PickNames(i) /\ UNCHANGED <<gvars, pvars>>
    \/ \E i \in 1..MaxRequests : Return(i) /\ UNCHANGED <<gvars, pvars>>
    \/ \E i \in 1..MaxRequests, r \in CBackendReplies : Resume(i, r) /\ UNCHANGED <<gvars, pvars>>
    \/ Served /\ UNCHANGED <<gvars, pvars>>

SpecC == InitC /\ [][NextC]_vars

(***************************************************************************)
(* The reply parser applied to bounded replies.                            *)
(***************************************************************************)
ReplyLines == {"TITLE: Cats win", "DESCRIPTION: Dogs lose", "CONTENT: It happened.",
               "Twice over.", "\fand again \f", ""}
Replies == UNION {[1..n -> ReplyLines] : n \in 0..MaxReplyLines}

Parsed(done, out) == [done |-> done, out |-> out]

PInit ==
    /\ pReply \in Replies
    /\ pOut = Parsed(FALSE, NoTransformed)

\* lines 206-252: the reply's lines arrive as one text and are parsed
Parse ==
    /\ ~pOut.done
    /\ pOut' = Parsed(TRUE, ParseReply(Join(pReply, "\n")))
    /\ UNCHANGED pReply

InitParse == PInit /\ GOff /\ TOff /\ COff

NextParse == Parse /\ UNCHANGED <<gvars, tvars, cvars>>

SpecParse == InitParse /\ [][NextParse]_vars

(***************************************************************************)
(* Properties of the gateway (checked under Spec).                         *)
(***************************************************************************)
RelayDone == gPc = "done" /\ gReq.endpoint = "transform"
CategoryDone == gPc = "done" /\ gReq.endpoint = "news_by_category"
AllNewsDone == gPc = "done" /\ gReq.endpoint = "all_news"

\* C1: when the Transformation service answers the relay call with a
\* non-200 status S, the gateway answers the client with status S and a
\* detail that includes the upstream body.
C1_UpstreamStatusRelayed ==
    (RelayDone /\ gUp.kind = "http" /\ gUp.status # 200)
        => (gResp.status = gUp.status /\ Contains(gUp.body, gResp.detail))

\* C7: a relay call that runs into the 60-second bound is answered 504, with
\* the fixed timeout detail and nothing of an upstream body, not by the
\* generic 500 branch.
C7_TimeoutGives504 ==
    (RelayDone /\ gUp.kind = "timeout")
        => /\ gResp.status = 504
           /\ gResp.detail = "Transformer service timeout"
           /\ gResp.json = ""
           /\ (gUp.body # "" => ~Contains(gUp.body, gResp.detail))

C7_Witness ==
    RelayDone /\ gUp.kind = "timeout" /\ gUp.body # "" /\ gResp.status = 504

\* "at most N items": a list of at most N items, and of none for a negative N
AtMost(items, n) == Len(items) <= (IF n < 0 THEN 0 ELSE n)

FeedFails(reply) == reply.kind \in {"error", "read_error"} \/ reply.status # 200 \/ ~reply.wellFormed

TaskOf(k) == gTasks[CHOOSE i \in 1..Len(BBC_FEEDS) : BBC_FEEDS[i] = k]

\* the join and the isolation of feeds in GET /news: no fetch finishes before
\* all are started, the response waits for all, every key is present, a
\* failed feed is an empty list and each list is what its own feed gives
AggregateJoinAndIsolation ==
    /\ (gPc = "gather" /\ \E i \in 1..Len(BBC_FEEDS) : gTasks[i].st = "done")
          => \A j \in 1..Len(BBC_FEEDS) : gTasks[j].st \in {"inflight", "body", "done"}
    /\ AllNewsDone =>
          /\ gResp.status = 200
          /\ DOMAIN gResp.news = FeedKeys
          /\ \A k \in FeedKeys :
                /\ TaskOf(k).st = "done"
                /\ FeedFails(TaskOf(k).reply) => gResp.news[k] = <<>>
                /\ gResp.news[k] = fetch_bbc_feed(k, TaskOf(k).reply, gReq.limit)

\* C4: GET /news?limit=N starts every feed fetch before any finishes, answers
\* only after all have finished, and returns a key for every configured
\* category, each list capped at N; a failed feed is an empty list under its
\* key, leaves its siblings' lists alone and never fails the call.
C4_AggregateNews ==
    /\ AggregateJoinAndIsolation
    /\ AllNewsDone => \A k \in FeedKeys : AtMost(gResp.news[k], gReq.limit)

\* C5: GET /news/{category}?limit=N for a configured category returns at
\* most N items, each with non-empty title, description and link and with
\* category equal to the requested key, for every N the endpoint accepts.
C5_CategoryItems ==
    (CategoryDone /\ gReq.category \in FeedKeys)
        => /\ gResp.status = 200
           /\ AtMost(gResp.items, gReq.limit)
           /\ \A i \in 1..Len(gResp.items) :
                 /\ gResp.items[i].title # ""
                 /\ gResp.items[i].description # ""
                 /\ gResp.items[i].link # ""
                 /\ gResp.items[i].category = gReq.category

\* an item node with a title, a description and a link, each with text
Complete(item) ==
    /\ item.title.present /\ item.title.hasText
    /\ item.description.present /\ item.description.hasText
    /\ item.link.present /\ item.link.hasText

Undated(item) ==
    ~item.pubDate.present \/ ~item.pubDate.hasText \/ ~StrptimeOk(PySlice(item.pubDate.text, 25))

RECURSIVE CompleteOnes(_)
CompleteOnes(items) ==
    IF items = <<>> THEN <<>>
    ELSE (IF Complete(Head(items)) THEN <<Head(items)>> ELSE <<>>) \o CompleteOnes(Tail(items))

\* C10: on a 200 reply with well-formed XML the result is exactly the
\* complete items among the first `limit` item nodes (limit >= 0), in feed
\* order: an incomplete item is dropped alone, and an item with a missing
\* or unparsable date is kept with the current timestamp.
C10_ItemsDroppedAlone ==
    (CategoryDone /\ gReq.category \in FeedKeys /\ gReq.limit >= 0
       /\ gFeed.kind = "http" /\ gFeed.status = 200 /\ gFeed.wellFormed)
        => LET kept == CompleteOnes(SubSeq(gFeed.items, 1,
                          IF gReq.limit < Len(gFeed.items) THEN gReq.limit ELSE Len(gFeed.items)))
           IN /\ Len(gResp.items) = Len(kept)
              /\ \A i \in 1..Len(kept) :
                    /\ gResp.items[i].title = Strip(kept[i].title.text)
                    /\ gResp.items[i].description = Strip(kept[i].description.text)
                    /\ gResp.items[i].link = Strip(kept[i].link.text)
                    /\ Undated(kept[i]) => gResp.items[i].pub_date = Now

(***************************************************************************)
(* Properties of the Transformation service (checked under SpecT).         *)
(***************************************************************************)
TDone == tPc = "done"
BackendRaises(b) ==
    b.kind \in {"timeout", "connect_error", "encode_error"} \/ b.status # 200 \/ b.json # "ok"

\* C2: POST /transform answers 200 with status "success" for every request
\* and every backend situation; no exception of the generation reaches the
\* handler's 500 branch.
C2_AlwaysSuccess ==
    TDone => (tResp.status = 200 /\ tResp.tag = "success" /\ tResp.transformed.title # "")

\* what does hold: the only request that is not answered with a success is
\* one handled without a credential whose title cannot be encoded
SuccessUnlessUnencodable ==
    TDone => IF ~tConfigured /\ ~Encodable(tReq.title)
             THEN tResp.status = 500 /\ tResp.tag # "success"
             ELSE tResp.status = 200 /\ tResp.tag = "success" /\ tResp.transformed.title # ""

\* C3: with no backend configured, two fallback calls with the same title
\* give identical title, description and content.
C3_SameTitleSameOutput ==
    (TDone /\ ~tConfigured /\ tPrev.valid /\ tPrev.title = tReq.title)
        => tPrev.transformed = tResp.transformed

\* C3 (amended): with no backend configured, two fallback calls with the same
\* title and the same category give identical title, description and
\* content, in the same process or across a restart.
C3_SameArticleSameOutput ==
    (TDone /\ ~tConfigured /\ tPrev.valid /\ tPrev.title = tReq.title
       /\ tPrev.category = tReq.category)
        => tPrev.transformed = tResp.transformed

C3_Witness ==
    /\ TDone /\ ~tConfigured /\ tPrev.valid
    /\ tPrev.title = tReq.title /\ tPrev.category = tReq.category
    /\ \E i \in 1..Len(satirical_angles) : tResp.transformed.title = satirical_angles[i]
    /\ tPrev.transformed = tResp.transformed

\* C6: with a usable credential, whenever contacting the backend or reading
\* its reply raises, the article returned is the one fixed error fallback,
\* whatever the input article; it differs from the seeded fallback of that
\* article and from the generic secondary-parse headline; the backend was
\* called exactly once.
C6_ErrorFallback ==
    (TDone /\ tConfigured /\ BackendRaises(tBackend))
        => /\ tResp.transformed = ErrorFallback
           /\ StartsWith(tResp.transformed.title, "Local News Event Occurs, ")
           /\ tCalls = 1
           /\ \A r \in FreshRngs : tResp.transformed # MockTransform(r, tReq.title, tReq.category).value
           /\ tResp.transformed.title # GenericTitle

C6_Witness ==
    TDone /\ tConfigured /\ tBackend.json = "null_content" /\ tResp.transformed = ErrorFallback

HasWord(w, text) == Contains(w, Lower(text))
Generic(h) == \E i \in 1..Len(satirical_angles) : h = satirical_angles[i]

\* C8: the fallback headline follows the precedence political ("trump" or
\* "president" in the title, whatever the case), then health/medical, then
\* business/finance, then technology, then the seeded generic pick; a title
\* containing "President" always gives the political headline, and a generic
\* headline is returned only when no keyword branch matches.
C8_HeadlinePrecedence ==
    (TDone /\ ~tConfigured) =>
        LET t == tReq.title
            c == tReq.category
            h == tResp.transformed.title
            political == HasWord("trump", t) \/ HasWord("president", t)
            health == HasWord("health", c) \/ HasWord("medical", t)
            business == HasWord("business", c) \/ HasWord("finance", t)
            technology == HasWord("technology", c)
        IN /\ political => h = PoliticalTitle
           /\ (~political /\ health) => h = HealthTitle
           /\ (~political /\ ~health /\ business) => h = BusinessTitle
           /\ (~political /\ ~health /\ ~business /\ technology) => h = TechnologyTitle
           /\ Generic(h) <=> ~(political \/ health \/ business \/ technology)
           /\ Contains("President", t) => h = PoliticalTitle

\* what does hold: the precedence among the headlines that are generated;
\* a title that cannot be encoded (line 64) gets no headline at all
PrecedenceOfGeneratedHeadlines ==
    (TDone /\ ~tConfigured /\ tResp.status = 200) =>
        LET t == tReq.title
            c == tReq.category
            h == tResp.transformed.title
            political == HasWord("trump", t) \/ HasWord("president", t)
            health == HasWord("health", c) \/ HasWord("medical", t)
            business == HasWord("business", c) \/ HasWord("finance", t)
            technology == HasWord("technology", c)
        IN /\ political => h = PoliticalTitle
           /\ (~political /\ health) => h = HealthTitle
           /\ (~political /\ ~health /\ business) => h = BusinessTitle
           /\ (~political /\ ~health /\ ~business /\ technology) => h = TechnologyTitle
           /\ Generic(h) <=> ~(political \/ health \/ business \/ technology)

\* the triple a generated body carries: its scenario and both quotes occur
\* in the text
HasTriple(body, triple) ==
    /\ Contains(triple.scenario, body)
    /\ Contains(triple.expert_quote, body)
    /\ Contains(triple.resident_quote, body)

\* C11: the fallback body picks its scenario/expert-quote/resident-quote
\* triple with the precedence of the headline selection without the
\* political branch (health, then business, then technology, then the
\* generic default); so whenever the headline is the health, business or
\* technology headline, the body carries the triple of that same topic.
C11_BodyFollowsHeadline ==
    (TDone /\ ~tConfigured /\ tResp.status = 200) =>
        LET t == tReq.title
            c == tReq.category
            h == tResp.transformed.title
            body == tResp.transformed.content
            health == HasWord("health", c) \/ HasWord("medical", t)
            business == HasWord("business", c) \/ HasWord("finance", t)
            technology == HasWord("technology", c)
        IN /\ HasTriple(body, IF health THEN HealthTriple
                              ELSE IF business THEN BusinessTriple
                              ELSE IF technology THEN TechnologyTriple
                              ELSE DefaultTriple)
           /\ h = HealthTitle => HasTriple(body, HealthTriple)
           /\ h = BusinessTitle => HasTriple(body, BusinessTriple)
           /\ h = TechnologyTitle => HasTriple(body, TechnologyTriple)

\* what the body does follow: the category alone, technology tested first
BodyFollowsCategory ==
    (TDone /\ ~tConfigured /\ tResp.status = 200) =>
        LET c == tReq.category
            body == tResp.transformed.content
        IN /\ HasTriple(body, IF HasWord("technology", c) THEN TechnologyTriple
                              ELSE IF HasWord("health", c) THEN HealthTriple
                              ELSE IF HasWord("business", c) THEN BusinessTriple
                              ELSE DefaultTriple)
           /\ tResp.transformed.title = TechnologyTitle => HasTriple(body, TechnologyTriple)

(***************************************************************************)
(* Properties of the concurrent Transformation service (checked under     *)
(* SpecC).                                                                 *)
(***************************************************************************)
\* the response to a request handled alone by a process whose generator is
\* in state rng
AloneResponse(rng, req) ==
    transformer_transform_article(MockTransform(rng, req.title, req.category))

\* the task has seeded the generator and has draws left to make
Drawing(task) == task.pc \in {"title", "descriptor", "names"}

\* C12: with no backend configured, every response of a request handled
\* while other requests are in flight in the same process equals the
\* response the same request gets when handled alone; and no two requests
\* are ever both between their seeding and their last draw.
C12_ConcurrentAsAlone ==
    ~tConfigured =>
        /\ \A i \in 1..MaxRequests :
              cTasks[i].pc = "done" =>
                  \A r \in CFreshRngs : cTasks[i].resp = AloneResponse(r, cTasks[i].req)
        /\ \A i, j \in 1..MaxRequests :
              (Drawing(cTasks[i]) /\ Drawing(cTasks[j])) => i = j

\* two requests with different titles were in flight together and both are
\* answered
C12_Witness ==
    /\ ~tConfigured
    /\ \E i, j \in 1..MaxRequests :
          /\ cTasks[i].pc = "done" /\ cTasks[j].pc = "done"
          /\ cTasks[i].overlapped
          /\ cTasks[i].req.title # cTasks[j].req.title
          /\ Generic(cTasks[i].resp.transformed.title)
          /\ Generic(cTasks[j].resp.transformed.title)
          /\ cTasks[j].resp = AloneResponse(tRng, cTasks[j].req)

(***************************************************************************)
(* Properties of the reply parser (checked under SpecParse).               *)
(***************************************************************************)
IsMarker(line, m) == StartsWith(Strip(line), m)
IsAnyMarker(line) == IsMarker(line, "TITLE:") \/ IsMarker(line, "DESCRIPTION:") \/ IsMarker(line, "CONTENT:")

\* the reply is a TITLE: line, a DESCRIPTION: line and a CONTENT: line, in
\* this order, each followed by any number of continuation lines
FollowsLayout(lines, d, c) ==
    /\ 1 < d /\ d < c /\ c <= Len(lines)
    /\ IsMarker(lines[1], "TITLE:")
    /\ IsMarker(lines[d], "DESCRIPTION:")
    /\ IsMarker(lines[c], "CONTENT:")
    /\ \A i \in (1..Len(lines)) \ {1, d, c} : ~IsAnyMarker(lines[i])

\* the text of a section: what follows the marker on line `from`, and the
\* lines after it up to line `to`
SectionTexts(lines, m, from, to) ==
    {Strip(SubSeq(Strip(lines[from]), Len(m) + 1, Len(Strip(lines[from]))))}
    \cup {Strip(lines[i]) : i \in (from + 1)..to}

\* C9: for a reply in the TITLE:/DESCRIPTION:/CONTENT: layout each returned
\* field holds the text after its marker and the continuation lines up to
\* the next marker: no text of a section is lost.
C9_NoSectionTextLost ==
    pOut.done =>
        \A d, c \in 1..Len(pReply) :
            FollowsLayout(pReply, d, c) =>
                /\ \A x \in SectionTexts(pReply, "TITLE:", 1, d - 1) : Contains(x, pOut.out.title)
                /\ \A x \in SectionTexts(pReply, "DESCRIPTION:", d, c - 1) : Contains(x, pOut.out.description)
                /\ \A x \in SectionTexts(pReply, "CONTENT:", c, Len(pReply)) : Contains(x, pOut.out.content)

=============================================================================
